---------------------------- MODULE Spec2Model ----------------------------
(***************************************************************************)
(* Model of deriva.core.annotation: validation of the annotations of an    *)
(* ERMrest model object against per-tag JSON Schema documents extended     *)
(* with five model-aware keywords.                                         *)
(*                                                                         *)
(* State: the process-wide schema container (_schemas), the reference      *)
(* store (_schema_store), the model object the caller currently holds and  *)
(* the last validate call with its outcome.                                *)
(***************************************************************************)
EXTENDS Integers, Sequences, FiniteSets, TLC

VARIABLES
    obj,            \* the model object the caller holds (kind, table, annotations)
    _schemas,       \* _AnnotationSchemas._schemas: tag name -> loaded schema document
    _schema_store,  \* the reference store: $id -> schema document
    loads,          \* tag name -> number of times its document was read and parsed
    tagArg,         \* the tag_name argument of the last validate call
    result          \* outcome of the last validate call

vars == <<obj, _schemas, _schema_store, loads, tagArg, result>>

---------------------------------------------------------------------------
(* Bounds                                                                  *)

MaxAnnotations == 2     \* annotations a model object carries in Spec
MaxLen == 3             \* length of a list-valued annotation in SpecKeywords

---------------------------------------------------------------------------
(* JSON values.  A value is a record with one field naming its type.       *)

Str(s)  == [str |-> s]
Num(n)  == [num |-> n]
List(q) == [list |-> q]
Obj(f)  == [obj |-> f]

IsStr(j)  == "str" \in DOMAIN j
IsList(j) == "list" \in DOMAIN j
IsDict(j) == "obj" \in DOMAIN j

Pair(a, b) == List(<<Str(a), Str(b)>>)

\* Python truthiness of a JSON value used as a name
Truthy(j) ==
    IF IsStr(j) THEN j.str # ""
    ELSE IF IsList(j) THEN Len(j.list) > 0
    ELSE IF IsDict(j) THEN DOMAIN j.obj # {}
    ELSE j.num # 0

\* hash() of a value: lists and dicts are unhashable
Hashable(j) == ~IsList(j) /\ ~IsDict(j)

---------------------------------------------------------------------------
(* The catalog model graph (read-only collaborator).                       *)
(*   schema "s":  T1(A, B)  key (s,K1), key K0 without constraint schema   *)
(*                T2(X)     key (s,K2)                                     *)
(*   FK_out: T1 (child) --> T2 (parent);  FK2: T2 (child) --> T1 (parent)  *)

Tables == {"T1", "T2"}

schema_name(t) == "s"

column_definitions(t) ==
    IF t = "T1" THEN <<[name |-> "A"], [name |-> "B"]>> ELSE <<[name |-> "X"]>>

NoSchema == "None"

keys(t) ==
    IF t = "T1"
    THEN {[constraint_schema |-> "s", constraint_name |-> "K1"],
          [constraint_schema |-> NoSchema, constraint_name |-> "K0"]}
    ELSE {[constraint_schema |-> "s", constraint_name |-> "K2"]}

ForeignKeys ==
    {[constraint_schema |-> "s", constraint_name |-> "FK_out",
      table |-> "T1", pk_table |-> "T2"],
     [constraint_schema |-> "s", constraint_name |-> "FK2",
      table |-> "T2", pk_table |-> "T1"]}

NoneFK == [constraint_schema |-> NoSchema, constraint_name |-> "None",
           table |-> "None", pk_table |-> "None"]

\* table.foreign_keys: the constraints whose child is the table; an entry may be None
foreign_keys(t) ==
    {fk \in ForeignKeys : fk.table = t} \cup (IF t = "T2" THEN {NoneFK} ELSE {})

\* model.fkey(constraint_name): the foreign key of that identity, KeyError if none
FkeyFound(constraint_name) ==
    /\ IsList(constraint_name)
    /\ Len(constraint_name.list) = 2
    /\ \E fk \in ForeignKeys :
          constraint_name = Pair(fk.constraint_schema, fk.constraint_name)

fkey(constraint_name) ==
    CHOOSE fk \in ForeignKeys :
        constraint_name = Pair(fk.constraint_schema, fk.constraint_name)

(* Model objects: a Table has column_definitions, keys, foreign_keys and   *)
(* schema; a Column has table only.                                        *)
Kinds == {"Table", "Column"}

HasAttr(model_obj, attr) ==
    IF model_obj.kind = "Table"
    THEN attr \in {"annotations", "column_definitions", "keys", "foreign_keys", "schema"}
    ELSE attr \in {"annotations", "table"}

\* annotations is an insertion-ordered mapping: a sequence of <<tag, value>>
AnnotationTags(model_obj) ==
    {model_obj.annotations[i][1] : i \in 1..Len(model_obj.annotations)}

AnnotationsGet(model_obj, t) ==
    LET i == CHOOSE k \in 1..Len(model_obj.annotations) : model_obj.annotations[k][1] = t
    IN  model_obj.annotations[i][2]


---------------------------------------------------------------------------
(* Tags and schema documents.                                              *)

\* ermrest_model.tag: abbreviation -> tag name
tag ==
    [export               |-> "tag:isrd.isi.edu,2016:export",
     source_definitions   |-> "tag:isrd.isi.edu,2019:source-definitions",
     visible_columns      |-> "tag:isrd.isi.edu,2016:visible-columns",
     visible_foreign_keys |-> "tag:isrd.isi.edu,2016:visible-foreign-keys",
     table_display        |-> "tag:isrd.isi.edu,2016:table-display",
     citation             |-> "tag:isrd.isi.edu,2018:citation",
     generated            |-> "tag:isrd.isi.edu,2016:generated"]

RegisteredTags == {tag[a] : a \in DOMAIN tag}

UnknownTag == "tag:example.org,2020:unknown"
EmptyTag == ""
UnregisteredTags == {UnknownTag, EmptyTag}

\* tag_name=None, the default of validate
None == "None"

TagNames == RegisteredTags \cup UnregisteredTags

Keywords == {"valid-columns", "valid-source-key", "valid-source-entry",
             "valid-foreign-keys", "valid-sort-key"}

NoData == [missing |-> TRUE]

\* pkgutil.get_data + json.loads of schemas/<abbrev>.schema.json.  Each document
\* applies at most one of the extension keywords to the annotation value;
\* "generated" has no schema resource.
SchemaResource(abbrev) ==
    CASE abbrev = "export" ->
            [id |-> "export.schema.json", kw |-> "valid-columns", value |-> TRUE]
      [] abbrev = "source_definitions" ->
            [id |-> "source_definitions.schema.json", kw |-> "none", value |-> FALSE]
      [] abbrev = "visible_columns" ->
            [id |-> "visible_columns.schema.json", kw |-> "valid-source-entry", value |-> TRUE]
      [] abbrev = "visible_foreign_keys" ->
            [id |-> "visible_foreign_keys.schema.json", kw |-> "valid-foreign-keys", value |-> TRUE]
      [] abbrev = "table_display" ->
            [id |-> "table_display.schema.json", kw |-> "valid-sort-key", value |-> TRUE]
      [] abbrev = "citation" ->
            [id |-> "citation.schema.json", kw |-> "valid-source-key", value |-> TRUE]
      [] OTHER -> NoData

\* _AnnotationSchemas.__init__: self._abbrev, the reverse of tag
_abbrev == [t \in RegisteredTags |-> CHOOSE a \in DOMAIN tag : tag[a] = t]

Empty == [t \in {} |-> NoData]

\* The container's state threaded through a call: the cache and the load counts
Container(schemas, n) == [schemas |-> schemas, loads |-> n]

\* Mutant of GetItem: the parsed document is returned but never stored
GetItem_NoStore(c, key) ==
    IF key \in DOMAIN c.schemas
    THEN [exc |-> "None", v |-> c.schemas[key], c |-> c]
    ELSE IF key \notin DOMAIN _abbrev
    THEN [exc |-> "KeyError", v |-> NoData, c |-> c]
    ELSE LET v == SchemaResource(_abbrev[key])
         IN  IF v = NoData
             THEN [exc |-> "FileNotFoundError", v |-> NoData, c |-> c]
             ELSE [exc |-> "None", v |-> v,
                   c |-> Container(c.schemas, [c.loads EXCEPT ![key] = @ + 1])]

\* Mutant of GetItem: the document stored has lost its extension keyword, so a
\* cache hit validates against less than the first call did
GetItem_StoresStripped(c, key) ==
    IF key \in DOMAIN c.schemas
    THEN [exc |-> "None", v |-> c.schemas[key], c |-> c]
    ELSE IF key \notin DOMAIN _abbrev
    THEN [exc |-> "KeyError", v |-> NoData, c |-> c]
    ELSE LET v == SchemaResource(_abbrev[key])
         IN  IF v = NoData
             THEN [exc |-> "FileNotFoundError", v |-> NoData, c |-> c]
             ELSE [exc |-> "None", v |-> v,
                   c |-> Container(c.schemas @@ (key :> [v EXCEPT !.kw = "none"]),
                                   [c.loads EXCEPT ![key] = @ + 1])]

\* _AnnotationSchemas.__getitem__: a cached document is returned as is; otherwise
\* the abbreviation is looked up (KeyError), the resource read (FileNotFoundError),
\* parsed, stored under the tag name and returned.
GetItem(c, key) ==
    IF key \in DOMAIN c.schemas
    THEN [exc |-> "None", v |-> c.schemas[key], c |-> c]
    ELSE IF key \notin DOMAIN _abbrev
    THEN [exc |-> "KeyError", v |-> NoData, c |-> c]
    ELSE LET v == SchemaResource(_abbrev[key])
         IN  IF v = NoData
             THEN [exc |-> "FileNotFoundError", v |-> NoData, c |-> c]
             ELSE [exc |-> "None", v |-> v,
                   c |-> Container(c.schemas @@ (key :> v),
                                   [c.loads EXCEPT ![key] = @ + 1])]

\* Module initialisation: _schemas = _AnnotationSchemas(), then _schema_store is
\* built by looking up tag.export and tag.source_definitions.
ZeroLoads == [t \in TagNames |-> 0]
AfterExport == GetItem(Container(Empty, ZeroLoads), tag.export).c
AfterImport == GetItem(AfterExport, tag.source_definitions).c

SchemaStore ==
    LET e == GetItem(Container(Empty, ZeroLoads), tag.export).v
        s == GetItem(AfterExport, tag.source_definitions).v
    IN  (e.id :> e) @@ (s.id :> s)

---------------------------------------------------------------------------
(* Validation errors and the outcome of one keyword check.                 *)

\* jsonschema.ValidationError(message, cause=...): the message is kept as its
\* format string and the values substituted into it
Error(fmt, args, cause) == [fmt |-> fmt, args |-> args, cause |-> cause]
NoError == Error("", <<>>, "None")

Pass     == [exc |-> "None", err |-> NoError]
Fail(e)  == [exc |-> "ValidationError", err |-> e]
Fault(x) == [exc |-> x, err |-> NoError]

\* [table.schema.name, table.name] as formatted into a message
QualifiedName(t) == List(<<Str(schema_name(t)), Str(t)>>)

ColumnNames(t) == {column_definitions(t)[i].name : i \in 1..Len(column_definitions(t))}

ConstraintName(k) ==
    <<IF k.constraint_schema # NoSchema THEN k.constraint_schema ELSE "", k.constraint_name>>

\* _nop
Nop == [nop |-> TRUE]

---------------------------------------------------------------------------
(* valid-sort-key                                                          *)

_validate_sort_key_fn(model_obj) ==
    LET m == IF HasAttr(model_obj, "table")
             THEN [kind |-> "Table", table |-> model_obj.table, annotations |-> <<>>]
             ELSE model_obj
    IN  IF ~HasAttr(m, "column_definitions")
        THEN Nop
        ELSE [nop |-> FALSE, _column_names |-> ColumnNames(m.table)]

_validate_sort_key_func(fn, value, instance) ==
    IF fn.nop \/ ~value
    THEN Pass
    ELSE LET present == IsStr(instance)
                        \/ (IsDict(instance) /\ "column" \in DOMAIN instance.obj)
             col_name == IF IsStr(instance) THEN instance ELSE instance.obj.column
         IN  IF ~present \/ ~Truthy(col_name)
             THEN Pass
             ELSE IF ~Hashable(col_name)
             THEN Fault("TypeError")
             ELSE IF ~(IsStr(col_name) /\ col_name.str \in fn._column_names)
             THEN Fail(Error("'%s' not found in column definitions", <<instance>>, "None"))
             ELSE Pass

---------------------------------------------------------------------------
(* valid-columns                                                           *)

_validate_columns_fn(model_obj) ==
    IF ~(HasAttr(model_obj, "column_definitions") /\ HasAttr(model_obj, "keys")
         /\ HasAttr(model_obj, "foreign_keys"))
    THEN Nop
    ELSE LET _key_names  == {ConstraintName(k) : k \in keys(model_obj.table)}
             _fkey_names == {ConstraintName(fk) :
                               fk \in {f \in foreign_keys(model_obj.table) : f # NoneFK}}
         IN  [nop |-> FALSE,
              _column_names |-> ColumnNames(model_obj.table),
              _constraint_names |-> _key_names \cup _fkey_names]

\* tuple(item) in _constraint_names, for a two-element list whose members hash
InConstraintNames(fn, item) ==
    /\ IsStr(item.list[1])
    /\ IsStr(item.list[2])
    /\ <<item.list[1].str, item.list[2].str>> \in fn._constraint_names

RECURSIVE ColumnsLoop(_, _, _)
ColumnsLoop(fn, instance, i) ==
    IF i > Len(instance.list)
    THEN Pass
    ELSE LET item == instance.list[i]
         IN  IF IsStr(item) /\ item.str \notin fn._column_names
             THEN Fail(Error("'%s' not found in column definitions", <<item>>, "None"))
             ELSE IF IsList(item) /\ Len(item.list) = 2
             THEN IF ~(Hashable(item.list[1]) /\ Hashable(item.list[2]))
                  THEN Fault("TypeError")
                  ELSE IF ~InConstraintNames(fn, item)
                  THEN Fail(Error("'%s' not found in keys or foreign keys", <<item>>, "None"))
                  ELSE ColumnsLoop(fn, instance, i + 1)
             ELSE ColumnsLoop(fn, instance, i + 1)

_validate_columns_func(fn, value, instance) ==
    IF fn.nop \/ ~value \/ ~IsList(instance)
    THEN Pass
    ELSE ColumnsLoop(fn, instance, 1)

---------------------------------------------------------------------------
(* valid-foreign-keys                                                      *)

_validate_foreign_keys_fn(model_obj) ==
    IF ~HasAttr(model_obj, "schema")
    THEN Nop
    ELSE [nop |-> FALSE, table |-> model_obj.table]

\* Mutant of ForeignKeysLoop: an element that is no two-element list is skipped
\* instead of ending the loop
RECURSIVE ForeignKeysLoop_Continue(_, _, _)
ForeignKeysLoop_Continue(fn, instance, i) ==
    IF i > Len(instance.list)
    THEN Pass
    ELSE LET item == instance.list[i]
         IN  IF ~(IsList(item) /\ Len(item.list) = 2)
             THEN ForeignKeysLoop_Continue(fn, instance, i + 1)
             ELSE IF ~FkeyFound(item)
             THEN Fail(Error("%s not found in foreign keys of model", <<item>>, "KeyError"))
             ELSE IF fkey(item).pk_table # fn.table
             THEN Fail(Error("%s does not refer to '%s'", <<item, Str(fn.table)>>, "None"))
             ELSE ForeignKeysLoop_Continue(fn, instance, i + 1)

RECURSIVE ForeignKeysLoop(_, _, _)
ForeignKeysLoop(fn, instance, i) ==
    IF i > Len(instance.list)
    THEN Pass
    ELSE LET item == instance.list[i]
         IN  IF ~(IsList(item) /\ Len(item.list) = 2)
             THEN Pass
             ELSE IF ~FkeyFound(item)
             THEN Fail(Error("%s not found in foreign keys of model", <<item>>, "KeyError"))
             ELSE IF fkey(item).pk_table # fn.table
             THEN Fail(Error("%s does not refer to '%s'", <<item, Str(fn.table)>>, "None"))
             ELSE ForeignKeysLoop(fn, instance, i + 1)

_validate_foreign_keys_func(fn, value, instance) ==
    IF fn.nop \/ ~value \/ ~IsList(instance)
    THEN Pass
    ELSE ForeignKeysLoop(fn, instance, 1)

---------------------------------------------------------------------------
(* valid-source-key                                                        *)

\* Mutant of _validate_source_key_fn: 'sources' is looked up on the annotations
\* instead of on the source definitions, so the key set is always empty
_validate_source_key_fn_NoSources(model_obj) ==
    IF tag.source_definitions \notin AnnotationTags(model_obj)
    THEN [exc |-> "None", sourcekeys |-> Obj(Empty)]
    ELSE LET sd == AnnotationsGet(model_obj, tag.source_definitions)
         IN  IF ~IsDict(sd)
             THEN [exc |-> "AttributeError", sourcekeys |-> Obj(Empty)]
             ELSE [exc |-> "None", sourcekeys |-> Obj(Empty)]

\* model_obj.annotations.get(tag.source_definitions, {}).get('sources', {})
_validate_source_key_fn(model_obj) ==
    IF tag.source_definitions \notin AnnotationTags(model_obj)
    THEN [exc |-> "None", sourcekeys |-> Obj(Empty)]
    ELSE LET sd == AnnotationsGet(model_obj, tag.source_definitions)
         IN  IF ~IsDict(sd)
             THEN [exc |-> "AttributeError", sourcekeys |-> Obj(Empty)]
             ELSE IF "sources" \in DOMAIN sd.obj
             THEN [exc |-> "None", sourcekeys |-> sd.obj.sources]
             ELSE [exc |-> "None", sourcekeys |-> Obj(Empty)]

\* instance in sourcekeys: key membership of a dict, element membership of a
\* list, TypeError for a value that is no container
_validate_source_key_func(fn, value, instance) ==
    IF ~(value /\ IsStr(instance))
    THEN Pass
    ELSE CASE IsDict(fn.sourcekeys) ->
                IF instance.str \notin DOMAIN fn.sourcekeys.obj
                THEN Fail(Error("'%s' not found in source definitions", <<instance>>, "None"))
                ELSE Pass
           [] IsList(fn.sourcekeys) ->
                IF \A i \in 1..Len(fn.sourcekeys.list) : fn.sourcekeys.list[i] # instance
                THEN Fail(Error("'%s' not found in source definitions", <<instance>>, "None"))
                ELSE Pass
           [] "num" \in DOMAIN fn.sourcekeys -> Fault("TypeError")

---------------------------------------------------------------------------
(* valid-source-entry                                                      *)

_validate_source_entry_fn(model_obj) ==
    IF ~(HasAttr(model_obj, "column_definitions") /\ HasAttr(model_obj, "schema"))
    THEN Nop
    ELSE [nop |-> FALSE,
          _base_column_names |-> ColumnNames(model_obj.table),
          model_obj |-> model_obj.table]

\* any(isinstance(item[io], list) and len(item[io]) == 2
\*     for io in ['inbound', 'outbound'] if io in item)
IsFkeyStep(item) ==
    /\ IsDict(item)
    /\ \E io \in {"inbound", "outbound"} :
          /\ io \in DOMAIN item.obj
          /\ IsList(item.obj[io])
          /\ Len(item.obj[io].list) = 2

\* Mutant of Direction: the current table is not updated after a foreign key
Direction_NoAdvance(current_table, item, direction) ==
    IF direction \notin DOMAIN item.obj
    THEN [out |-> Pass, current_table |-> current_table]
    ELSE LET constraint_name == item.obj[direction]
             match_with == IF direction = "outbound" THEN "table" ELSE "pk_table"
         IN  IF ~FkeyFound(constraint_name)
             THEN [out |-> Fail(Error("%s not found in model fkeys",
                                      <<constraint_name>>, "KeyError")),
                   current_table |-> current_table]
             ELSE IF fkey(constraint_name)[match_with] # current_table
             THEN [out |-> Fail(Error("%s foreign key %s not associated with %s",
                                      <<Str(direction), constraint_name,
                                        QualifiedName(current_table)>>, "None")),
                   current_table |-> current_table]
             ELSE [out |-> Pass, current_table |-> current_table]

\* One pass of the direction loop: the foreign key must exist and its
\* match_with_table side must be the current table, which then moves to its
\* update_current_table side.
Direction(current_table, item, direction) ==
    IF direction \notin DOMAIN item.obj
    THEN [out |-> Pass, current_table |-> current_table]
    ELSE LET constraint_name == item.obj[direction]
             match_with  == IF direction = "outbound" THEN "table" ELSE "pk_table"
             update_with == IF direction = "outbound" THEN "pk_table" ELSE "table"
         IN  IF ~FkeyFound(constraint_name)
             THEN [out |-> Fail(Error("%s not found in model fkeys",
                                      <<constraint_name>>, "KeyError")),
                   current_table |-> current_table]
             ELSE IF fkey(constraint_name)[match_with] # current_table
             THEN [out |-> Fail(Error("%s foreign key %s not associated with %s",
                                      <<Str(direction), constraint_name,
                                        QualifiedName(current_table)>>, "None")),
                   current_table |-> current_table]
             ELSE [out |-> Pass, current_table |-> fkey(constraint_name)[update_with]]

RECURSIVE SourceEntryLoop(_, _, _)
SourceEntryLoop(current_table, instance, i) ==
    IF i > Len(instance.list)
    THEN Pass
    ELSE LET item == instance.list[i]
         IN  IF IsStr(item)
             THEN IF item.str \notin ColumnNames(current_table)
                  THEN Fail(Error("'%s' not found in column definitions of table %s",
                                  <<item, QualifiedName(current_table)>>, "None"))
                  ELSE SourceEntryLoop(current_table, instance, i + 1)
             ELSE IF IsFkeyStep(item)
             THEN LET o == Direction(current_table, item, "outbound")
                      n == Direction(o.current_table, item, "inbound")
                  IN  IF o.out # Pass THEN o.out
                      ELSE IF n.out # Pass THEN n.out
                      ELSE SourceEntryLoop(n.current_table, instance, i + 1)
             ELSE Pass

_validate_source_entry_func(fn, value, instance) ==
    IF fn.nop \/ ~value
    THEN Pass
    ELSE IF IsStr(instance)
    THEN IF instance.str \notin fn._base_column_names
         THEN Fail(Error("'%s' not found in column definitions", <<instance>>, "None"))
         ELSE Pass
    ELSE IF IsList(instance)
    THEN SourceEntryLoop(fn.model_obj, instance, 1)
    ELSE Pass

---------------------------------------------------------------------------
(* The orchestrator.                                                       *)

\* ExtendedValidator(schema, resolver=resolver).validate(instance): the engine
\* calls the function of each extension keyword the schema holds with the
\* keyword's value and the instance
ExtendedValidate(fns, schema, instance) ==
    CASE schema.kw = "valid-columns" ->
            _validate_columns_func(fns.columns, schema.value, instance)
      [] schema.kw = "valid-source-key" ->
            _validate_source_key_func(fns.source_key, schema.value, instance)
      [] schema.kw = "valid-source-entry" ->
            _validate_source_entry_func(fns.source_entry, schema.value, instance)
      [] schema.kw = "valid-foreign-keys" ->
            _validate_foreign_keys_func(fns.foreign_keys, schema.value, instance)
      [] schema.kw = "valid-sort-key" ->
            _validate_sort_key_func(fns.sort_key, schema.value, instance)
      [] OTHER -> Pass

\* The outcome of a call: the list returned, or the exception that escaped
Returned(errors, c) == [exc |-> "None", errors |-> errors, c |-> c]
Raised(x, c)        == [exc |-> x, errors |-> <<>>, c |-> c]

UnknownTagError(tag_name) ==
    Error("Unknown annotation tag name \"%s\"", <<Str(tag_name)>>, "KeyError")

\* Mutant of Reduce: a missing schema document is reported like an unknown tag
Reduce_MissingIsError(exc, err, tag_name, c) ==
    CASE exc = "None"              -> Returned(<<>>, c)
      [] exc = "ValidationError"   -> Returned(<<err>>, c)
      [] exc = "KeyError"          -> Returned(<<UnknownTagError(tag_name)>>, c)
      [] exc = "FileNotFoundError" -> Returned(<<UnknownTagError(tag_name)>>, c)
      [] OTHER                     -> Raised(exc, c)

\* The except clauses of _validate: a ValidationError is returned as the one
\* error, a KeyError as the unknown-tag error, a FileNotFoundError is logged and
\* gives the empty list; any other exception is not caught.
Reduce(exc, err, tag_name, c) ==
    CASE exc = "None"              -> Returned(<<>>, c)
      [] exc = "ValidationError"   -> Returned(<<err>>, c)
      [] exc = "KeyError"          -> Returned(<<UnknownTagError(tag_name)>>, c)
      [] exc = "FileNotFoundError" -> Returned(<<>>, c)
      [] OTHER                     -> Raised(exc, c)

\* The try block of _validate and its reduction
_validate(c, model_obj, tag_name) ==
    IF tag_name \notin AnnotationTags(model_obj)
    THEN Reduce("None", NoError, tag_name, c)
    ELSE LET g == GetItem(c, tag_name)
             sk == _validate_source_key_fn(model_obj)
             fns == [columns      |-> _validate_columns_fn(model_obj),
                     source_key   |-> sk,
                     source_entry |-> _validate_source_entry_fn(model_obj),
                     foreign_keys |-> _validate_foreign_keys_fn(model_obj),
                     sort_key     |-> _validate_sort_key_fn(model_obj)]
             r == ExtendedValidate(fns, g.v, AnnotationsGet(model_obj, tag_name))
         IN  IF g.exc # "None"
             THEN Reduce(g.exc, NoError, tag_name, g.c)
             ELSE IF sk.exc # "None"
             THEN Reduce(sk.exc, NoError, tag_name, g.c)
             ELSE Reduce(r.exc, r.err, tag_name, g.c)

\* the loop of validate over model_obj.annotations, from its i-th entry on
RECURSIVE ValidateAll(_, _, _, _)
ValidateAll(c, model_obj, i, errors) ==
    IF i > Len(model_obj.annotations)
    THEN Returned(errors, c)
    ELSE LET r == _validate(c, model_obj, model_obj.annotations[i][1])
         IN  IF r.exc # "None"
             THEN r
             ELSE ValidateAll(r.c, model_obj, i + 1, errors \o r.errors)

validate(c, model_obj, tag_name) ==
    IF tag_name = None \/ tag_name = ""
    THEN ValidateAll(c, model_obj, 1, <<>>)
    ELSE _validate(c, model_obj, tag_name)

---------------------------------------------------------------------------
(* Inputs: the model objects and annotation values the caller supplies.    *)

ModelObject(kind, table, annotations) ==
    [kind |-> kind, table |-> table, annotations |-> annotations]

\* The objects a caller starts from: both tables and a column of T1
BaseObjects ==
    {ModelObject("Table", "T1", <<>>), ModelObject("Table", "T2", <<>>),
     ModelObject("Column", "T1", <<>>)}

Sources(keyset) == Obj([sources |-> Obj([k \in keyset |-> Num(1)])])

\* Annotation values of Spec, per tag
Values(t) ==
    CASE t = tag.export               -> {List(<<Str("A")>>)}
      [] t = tag.source_definitions   -> {Sources({"k1"}), List(<<Str("A")>>)}
      [] t = tag.visible_columns      -> {Str("X")}
      [] t = tag.visible_foreign_keys -> {List(<<Pair("s", "FK_out")>>)}
      [] t = tag.table_display        -> {Str("X")}
      [] t = tag.citation             -> {Str("k1")}
      [] OTHER                        -> {Num(1)}

\* model_obj.annotations[t] = v: a present tag keeps its place, a new one is appended
SetAnnotation(annotations, t, v) ==
    IF \E i \in 1..Len(annotations) : annotations[i][1] = t
    THEN [i \in 1..Len(annotations) |->
            IF annotations[i][1] = t THEN <<t, v>> ELSE annotations[i]]
    ELSE Append(annotations, <<t, v>>)

\* Sequences over S of length at most n
RECURSIVE SeqsUpTo(_, _)
SeqsUpTo(S, n) ==
    IF n = 0 THEN {<<>>}
    ELSE LET shorter == SeqsUpTo(S, n - 1)
         IN  shorter \cup {Append(q, x) : q \in {r \in shorter : Len(r) = n - 1}, x \in S}

Step(direction, name) ==
    IF direction = "outbound" THEN Obj([outbound |-> Pair("s", name)])
    ELSE Obj([inbound |-> Pair("s", name)])

UnhashablePair == List(<<List(<<Str("s")>>), Str("K1")>>)

ColumnItems ==
    {Str("A"), Str("C"), Pair("s", "K1"), Pair("", "K0"), Pair("s", "FK_out"),
     Pair("s", "K2"), Num(5), UnhashablePair}

ForeignKeyItems ==
    {Pair("s", "FK_out"), Pair("s", "FK2"), Pair("s", "Nope"), Num(5)}

SourceEntryItems ==
    {Str("A"), Str("X"),
     Step("outbound", "FK_out"), Step("inbound", "FK_out"),
     Step("outbound", "FK2"), Step("inbound", "FK2"), Step("outbound", "Nope"),
     Num(5), Obj([outbound |-> Num(5)]),
     Obj([outbound |-> Pair("s", "FK_out"), inbound |-> Pair("s", "FK_out")]),
     Obj([outbound |-> Pair("s", "FK_out"), inbound |-> Num(5)])}

SourceDefinitions ==
    {Sources({"k1"}), Sources({}), Obj(Empty), List(<<Str("k1")>>),
     Obj([sources |-> List(<<Str("k1")>>)]), Obj([sources |-> Num(5)])}

SourceKeyInstances == {Str("k1"), Str("k2"), Str(""), Num(5)}

SortKeyInstances ==
    {Str("A"), Str("C"), Str(""), Num(5), Obj([column |-> Str("A")]),
     Obj([column |-> Str("C")]), Obj([column |-> List(<<Str("A")>>)]),
     Obj([other |-> Str("C")])}

\* The objects of SpecKeywords: one annotation exercising one keyword, on a
\* table or on a column, and for valid-source-key the source definitions too
KeywordObjects ==
    {ModelObject("Table", "T1", <<<<tag.export, List(q)>>>>) :
        q \in SeqsUpTo(ColumnItems, MaxLen)}
    \cup {ModelObject("Table", "T2", <<<<tag.visible_foreign_keys, List(q)>>>>) :
        q \in SeqsUpTo(ForeignKeyItems, MaxLen)}
    \cup {ModelObject("Table", "T1", <<<<tag.visible_columns, List(q)>>>>) :
        q \in SeqsUpTo(SourceEntryItems, MaxLen)}
    \cup {ModelObject("Table", "T1", <<<<tag.visible_columns, v>>>>) :
        v \in {Str("A"), Str("X"), Num(5)}}
    \cup {ModelObject(k, "T1", <<<<tag.citation, v>>>>) :
        k \in Kinds, v \in SourceKeyInstances}
    \cup {ModelObject(k, "T1", <<<<tag.source_definitions, sd>>, <<tag.citation, v>>>>) :
        k \in Kinds, sd \in SourceDefinitions, v \in SourceKeyInstances}
    \cup {ModelObject(k, "T1", <<<<tag.table_display, v>>>>) :
        k \in Kinds, v \in SortKeyInstances}
    \cup {ModelObject("Column", "T1", <<<<t, List(<<Str("C"), Pair("s", "Nope")>>)>>>>) :
        t \in {tag.export, tag.visible_foreign_keys, tag.visible_columns}}

---------------------------------------------------------------------------
(* The state machine.                                                      *)

TagArgs == TagNames \cup {None}

NoCall == [exc |-> "NoCall", errors |-> <<>>]

InitModule ==
    /\ _schemas = AfterImport.schemas
    /\ loads = AfterImport.loads
    /\ _schema_store = SchemaStore
    /\ tagArg = None
    /\ result = NoCall

Init ==
    /\ InitModule
    /\ obj \in BaseObjects

InitKeywords ==
    /\ InitModule
    /\ obj \in KeywordObjects

\* A call validate(obj, tag_name), or validate(obj) when tag_name is None
Validate(tag_name) ==
    LET r == validate(Container(_schemas, loads), obj, tag_name)
    IN  /\ _schemas' = r.c.schemas
        /\ loads' = r.c.loads
        /\ tagArg' = tag_name
        /\ result' = [exc |-> r.exc, errors |-> r.errors]
        /\ UNCHANGED <<obj, _schema_store>>

\* The caller sets an annotation of the object it holds
Annotate(t, v) ==
    /\ t \in AnnotationTags(obj) \/ Len(obj.annotations) < MaxAnnotations
    /\ obj' = [obj EXCEPT !.annotations = SetAnnotation(@, t, v)]
    /\ obj' # obj
    /\ tagArg' = None
    /\ result' = NoCall
    /\ UNCHANGED <<_schemas, _schema_store, loads>>

\* The caller turns to another object of the catalog model
NewObject(o) ==
    /\ obj' = o
    /\ obj' # obj
    /\ tagArg' = None
    /\ result' = NoCall
    /\ UNCHANGED <<_schemas, _schema_store, loads>>

Call == \E t \in TagArgs : Validate(t)

Edit == \E t \in TagNames : \E v \in Values(t) : Annotate(t, v)

Turn == \E o \in BaseObjects : NewObject(o)

Next == Call \/ Edit \/ Turn

Spec == Init /\ [][Next]_vars

NextKeywords == Call

SpecKeywords == InitKeywords /\ [][NextKeywords]_vars

---------------------------------------------------------------------------
(* Properties.                                                             *)

Called == result # NoCall

Current == Container(_schemas, loads)

Outcome(r) == [exc |-> r.exc, errors |-> r.errors]

ReturnedList(errors) == [exc |-> "None", errors |-> errors]

\* The message of error e embeds the value j
Mentions(e, j) == \E i \in 1..Len(e.args) : e.args[i] = j

MissingResourceTags == {t \in RegisteredTags : SchemaResource(_abbrev[t]) = NoData}

\* The object carries exactly the annotation <<t, value>>
Carries(t) == Len(obj.annotations) = 1 /\ obj.annotations[1][1] = t

\* C1: for every unregistered tag t, present among the annotations or not,
\* validate(obj, t) returns a list of exactly one error whose message contains t.
C1_UnregisteredTagOneError ==
    (Called /\ tagArg \in UnregisteredTags /\ tagArg # EmptyTag) =>
        /\ result.exc = "None"
        /\ Len(result.errors) = 1
        /\ Mentions(result.errors[1], Str(tagArg))

\* C2: validate always returns a list; no exception escapes it.
C2_AlwaysReturnsList == Called => result.exc = "None"

\* C3: for a registered tag without a schema resource that the object carries,
\* validate(obj, t) returns the empty list, now and on every later call, and the
\* tag never enters the schema cache.
C3_MissingSchemaIsSoft ==
    /\ \A t \in MissingResourceTags : t \notin DOMAIN _schemas
    /\ (Called /\ tagArg \in MissingResourceTags /\ tagArg \in AnnotationTags(obj)) =>
            result = ReturnedList(<<>>)

C3_Witness ==
    /\ Called
    /\ tagArg = tag.generated
    /\ tag.generated \in AnnotationTags(obj)
    /\ result = ReturnedList(<<>>)

\* C4: whatever the earlier calls put into the schema cache, validate(obj, t)
\* gives what it gives in a fresh process (the cache as the module import leaves
\* it) and what it would give from an empty cache.
C4_CacheDoesNotAlterOutcome ==
    Called =>
        /\ result = Outcome(validate(AfterImport, obj, tagArg))
        /\ result = Outcome(validate(Container(Empty, ZeroLoads), obj, tagArg))

\* a lazily loaded schema is already cached, and the call on it reports an error
C4_Witness ==
    /\ Called
    /\ tagArg = tag.visible_columns
    /\ tagArg \in DOMAIN _schemas
    /\ tagArg \in AnnotationTags(obj)
    /\ tag.visible_foreign_keys \in DOMAIN _schemas
    /\ Len(result.errors) = 1

\* validate(obj, t) for each tag of the annotations, in their order, concatenated
RECURSIVE PerTag(_, _)
PerTag(model_obj, i) ==
    IF i > Len(model_obj.annotations)
    THEN ReturnedList(<<>>)
    ELSE LET r == validate(Current, model_obj, model_obj.annotations[i][1])
             rest == PerTag(model_obj, i + 1)
         IN  IF r.exc # "None" THEN Outcome(r)
             ELSE IF rest.exc # "None" THEN rest
             ELSE ReturnedList(r.errors \o rest.errors)

\* C5: validate(obj) with the tag omitted returns the concatenation, in the order
\* of obj.annotations, of validate(obj, t) for each tag t present, and each tag
\* contributes at most one error.
C5_AllIsConcatenation ==
    (Called /\ tagArg = None) =>
        /\ result = PerTag(obj, 1)
        /\ \A i \in 1..Len(obj.annotations) :
              Len(validate(Current, obj, obj.annotations[i][1]).errors) <= 1

---------------------------------------------------------------------------
(* The keyword checks, stated on the annotation value.                     *)

\* The last call validated the single annotation <<t, List(q)>> of a table
ListCase(t) ==
    /\ Called
    /\ obj.kind = "Table"
    /\ Carries(t)
    /\ tagArg = t
    /\ IsList(obj.annotations[1][2])

Path == obj.annotations[1][2].list

\* the position of the first element of q satisfying Stop, Len(q) + 1 if none
FirstWhere(q, Stop(_)) ==
    IF \E i \in 1..Len(q) : Stop(q[i])
    THEN CHOOSE i \in 1..Len(q) : Stop(q[i]) /\ \A j \in 1..(i - 1) : ~Stop(q[j])
    ELSE Len(q) + 1

ForeignKeyNamed(name) == \E fk \in ForeignKeys : name = Pair("s", fk.constraint_name)
Child(name)  == (CHOOSE fk \in ForeignKeys : name = Pair("s", fk.constraint_name)).table
Parent(name) == (CHOOSE fk \in ForeignKeys : name = Pair("s", fk.constraint_name)).pk_table

IsTwoList(j) == IsList(j) /\ Len(j.list) = 2

Has(item, direction) == IsDict(item) /\ direction \in DOMAIN item.obj

\* an element of a source entry path that is neither a column name nor an
\* object with an "inbound" or "outbound" two-element list
Unrecognized(item) ==
    ~IsStr(item) /\ ~(Has(item, "outbound") /\ IsTwoList(item.obj.outbound))
                 /\ ~(Has(item, "inbound") /\ IsTwoList(item.obj.inbound))

OutboundOk(cur, item) ==
    Has(item, "outbound") =>
        ForeignKeyNamed(item.obj.outbound) /\ Child(item.obj.outbound) = cur

AfterOutbound(cur, item) ==
    IF Has(item, "outbound") /\ ForeignKeyNamed(item.obj.outbound)
    THEN Parent(item.obj.outbound) ELSE cur

InboundOk(cur, item) ==
    Has(item, "inbound") =>
        ForeignKeyNamed(item.obj.inbound) /\ Parent(item.obj.inbound) = cur

AfterInbound(cur, item) ==
    IF Has(item, "inbound") /\ ForeignKeyNamed(item.obj.inbound)
    THEN Child(item.obj.inbound) ELSE cur

\* the rule of one path element at current table cur (an element with both
\* directions is held to the outbound rule, then to the inbound rule)
ElementOk(cur, item) ==
    IF IsStr(item) THEN item.str \in ColumnNames(cur)
    ELSE OutboundOk(cur, item) /\ InboundOk(AfterOutbound(cur, item), item)

\* the current table when element i of path q is reached, starting from start
RECURSIVE TableAt(_, _, _)
TableAt(start, q, i) ==
    IF i = 1 THEN start
    ELSE LET cur == TableAt(start, q, i - 1)
             item == q[i - 1]
         IN  IF IsStr(item) THEN cur
             ELSE AfterInbound(AfterOutbound(cur, item), item)

PathViolation(start, q, i) ==
    /\ i < FirstWhere(q, Unrecognized)
    /\ ~ElementOk(TableAt(start, q, i), q[i])

\* C6: valid-source-entry on a table with a list instance: the walk starts at
\* the table, a string must be a column of the current table, outbound needs the
\* foreign key to exist with the current table as child and moves to its parent,
\* inbound needs the current table as parent and moves to the child; the check
\* fails iff an element before the first unrecognized one breaks these rules.
C6_SourceEntryPathWalk ==
    ListCase(tag.visible_columns) =>
        /\ result.exc = "None"
        /\ Len(result.errors) <= 1
        /\ Len(result.errors) = 1 <=>
              \E i \in 1..Len(Path) : PathViolation(obj.table, Path, i)
        /\ (obj.table = "T1" /\ Path = <<Step("outbound", "FK_out"), Str("X")>>) =>
              result.errors = <<>>
        /\ (obj.table = "T1" /\ Path = <<Step("inbound", "FK_out"), Str("X")>>) =>
              Len(result.errors) = 1

C6_Witness ==
    /\ ListCase(tag.visible_columns)
    /\ obj.table = "T1"
    /\ Path = <<Step("outbound", "FK_out"), Str("X")>>
    /\ result = ReturnedList(<<>>)

NotTwoList(j) == ~IsTwoList(j)

ForeignKeyViolation(t, q, i) ==
    /\ i < FirstWhere(q, NotTwoList)
    /\ ~ForeignKeyNamed(q[i]) \/ Parent(q[i]) # t

\* C7: valid-foreign-keys on a table T with a list instance: the check fails iff
\* one of the pairs before the first element that is no two-element list names
\* no foreign key of the model or one whose pk_table is not T; later elements
\* are not checked; validate reports exactly one error, naming the first
\* offending constraint.
C7_ForeignKeysCheck ==
    ListCase(tag.visible_foreign_keys) =>
        /\ result.exc = "None"
        /\ Len(result.errors) <= 1
        /\ Len(result.errors) = 1 <=>
              \E i \in 1..Len(Path) : ForeignKeyViolation(obj.table, Path, i)
        /\ Len(result.errors) = 1 =>
              LET i == CHOOSE k \in 1..Len(Path) :
                          /\ ForeignKeyViolation(obj.table, Path, k)
                          /\ \A j \in 1..(k - 1) : ~ForeignKeyViolation(obj.table, Path, j)
              IN  Mentions(result.errors[1], Path[i])

\* [FK_out, FK2] on T2, parent of FK_out only: one error naming FK2
C7_Witness ==
    /\ ListCase(tag.visible_foreign_keys)
    /\ obj.table = "T2"
    /\ Path = <<Pair("s", "FK_out"), Pair("s", "FK2")>>
    /\ Len(result.errors) = 1
    /\ Mentions(result.errors[1], Pair("s", "FK2"))

\* the identities of the keys and foreign keys of table t, pooled
Identity(k) ==
    Pair(IF k.constraint_schema = NoSchema THEN "" ELSE k.constraint_schema,
         k.constraint_name)

ConstraintsOf(t) ==
    {Identity(k) : k \in keys(t)}
        \cup {Identity(fk) : fk \in {f \in ForeignKeys : f.table = t}}

ColumnViolation(t, item) ==
    \/ IsStr(item) /\ item.str \notin ColumnNames(t)
    \/ IsTwoList(item) /\ item \notin ConstraintsOf(t)

\* C8: valid-columns on a table with a list instance: the check fails iff some
\* element is a string that is no column of the table or a two-element list
\* that is the identity of none of its keys and foreign keys; other elements
\* neither fail nor stop the check; a failing annotation yields exactly one
\* error, naming the first offending element.
C8_ColumnsCheck ==
    ListCase(tag.export) =>
        /\ result.exc = "None"
        /\ Len(result.errors) <= 1
        /\ Len(result.errors) = 1 <=>
              \E i \in 1..Len(Path) : ColumnViolation(obj.table, Path[i])
        /\ Len(result.errors) = 1 =>
              LET i == CHOOSE k \in 1..Len(Path) :
                          /\ ColumnViolation(obj.table, Path[k])
                          /\ \A j \in 1..(k - 1) : ~ColumnViolation(obj.table, Path[j])
              IN  Mentions(result.errors[1], Path[i])

\* the same object's "source definitions" annotation is absent or an object
\* whose sources, if any, is an object
SourcesCase ==
    /\ Called
    /\ tagArg = tag.citation
    /\ tag.citation \in AnnotationTags(obj)
    /\ tag.source_definitions \in AnnotationTags(obj) =>
          LET sd == AnnotationsGet(obj, tag.source_definitions)
          IN  IsDict(sd) /\ ("sources" \in DOMAIN sd.obj => IsDict(sd.obj.sources))

\* the keys of the sources map, empty without the annotation or without sources
SourceKeys ==
    IF tag.source_definitions \notin AnnotationTags(obj) THEN {}
    ELSE LET sd == AnnotationsGet(obj, tag.source_definitions)
         IN  IF "sources" \in DOMAIN sd.obj THEN DOMAIN sd.obj.sources.obj ELSE {}

Instance == AnnotationsGet(obj, tag.citation)

\* C9 as stated: an instance passes valid-source-key iff it is a string among
\* the keys of the sources map, and with no source definitions (or no sources)
\* every non-empty instance fails.
C9_Original ==
    SourcesCase =>
        /\ result = ReturnedList(<<>>) <=> (IsStr(Instance) /\ Instance.str \in SourceKeys)
        /\ (SourceKeys = {} /\ Instance # Str("")) => Len(result.errors) = 1

\* C9 amended: a string instance passes iff it is a key of the sources map and
\* otherwise yields one error naming it (with no source definitions or no
\* sources every string fails); an instance that is not a string always passes.
C9_SourceKeyCheck ==
    SourcesCase =>
        /\ result.exc = "None"
        /\ IsStr(Instance) =>
              IF Instance.str \in SourceKeys
              THEN result.errors = <<>>
              ELSE Len(result.errors) = 1 /\ Mentions(result.errors[1], Instance)
        /\ ~IsStr(Instance) => result.errors = <<>>

\* sources {"k1": ...}: the instance "k1" passes
C9_Witness ==
    /\ SourcesCase
    /\ SourceKeys = {"k1"}
    /\ Instance = Str("k1")
    /\ result = ReturnedList(<<>>)

\* what holds of the cache and the reference store in every state
C10_CacheState ==
    /\ \A t \in TagNames : loads[t] <= 1
    /\ \A t \in DOMAIN _schemas :
          /\ t \in RegisteredTags
          /\ _schemas[t] = SchemaResource(_abbrev[t])
          /\ _schemas[t] # NoData
          /\ loads[t] = 1
    /\ _schema_store = SchemaStore
    /\ DOMAIN _schema_store = {SchemaResource("export").id,
                               SchemaResource("source_definitions").id}

\* what every step keeps
C10_CacheStep ==
    /\ \A t \in DOMAIN _schemas : t \in DOMAIN _schemas' /\ _schemas'[t] = _schemas[t]
    /\ _schema_store' = _schema_store

\* C10: each tag's document is loaded at most once; a cached entry is never
\* removed, replaced or changed; only successfully loaded documents are cached;
\* the reference store stays as built at import.
C10_SchemaCache == [](C10_CacheState) /\ [][C10_CacheStep]_vars

\* every lazily loaded document is cached and a call has just hit the cache
C10_Witness ==
    /\ Called
    /\ DOMAIN _schemas = RegisteredTags \ MissingResourceTags
    /\ tagArg \in DOMAIN _schemas
    /\ tagArg \in AnnotationTags(obj)
    /\ tagArg \notin DOMAIN AfterImport.schemas

=============================================================================
